---- MODULE Spec2Model ----
(***************************************************************************)
(* Model of the Huawei MCP catalog tools:                                  *)
(*   hierarchy_query.py  - catalog parser, hierarchy index, command        *)
(*                         inference and the orchestrating main()          *)
(*   mcp_collect.py      - the schema collector script that main() runs    *)
(*                         as a subprocess                                 *)
(* Strings are sequences of one-character strings, so that prefix tests,   *)
(* replacement, lower-casing and path splitting are computed as Python     *)
(* computes them.  An optional value is <<>> (None) or <<v>>.              *)
(***************************************************************************)
EXTENDS Integers, Sequences, FiniteSets, TLC

VARIABLES
    pc,          \* position of hierarchy_query.main
    README,      \* content of README_zh.md: <<>> (no table) or <<rows>>
    args,        \* parsed command line of hierarchy_query.py
    hierarchy,   \* dict group -> list of ProductRecord, as a list of pairs
    record,      \* the resolved ProductRecord: <<>> or <<r>>
    outcome,     \* how hierarchy_query.main ended
    calls,       \* the operations main has called, in order
    fs,          \* content of the output file: <<>> (absent) or <<dict>>
    fs0,         \* content of the output file before the run
    cpc,         \* position of the mcp_collect.py process
    transport,   \* stdio_client context: "closed" or "open"
    session,     \* ClientSession context: "closed" or "open"
    tools,       \* tools_response.tools
    schemas,     \* the local dict of get_server_schemas
    idx,         \* index of the for loop over the tools
    pending,     \* what unwinds the two async with blocks
    failure,     \* the step of the collection that raised, or "none"
    result,      \* value returned by get_server_schemas: <<>> or <<dict>>
    writes,      \* number of writes of the output file
    invocations, \* number of subprocess.run calls
    exitcode     \* exit status of mcp_collect.py: <<>> or <<n>>

vars == <<pc, README, args, hierarchy, record, outcome, calls, fs, fs0, cpc,
          transport, session, tools, schemas, idx, pending, failure, result,
          writes, invocations, exitcode>>

collVars == <<cpc, transport, session, tools, schemas, idx, pending,
              failure, result, exitcode>>

----------------------------------------------------------------------------
(* Bounds *)
MaxFragments == 3   \* fragments concatenated into a repository path
MaxRows == 3        \* rows of a generated table
MaxItems == 2       \* records of a generated group
MaxTools == 2       \* tools a server lists

----------------------------------------------------------------------------
(* Strings *)
None == <<>>
Some(v) == <<v>>

\* Python truthiness of an Optional[str]: None and "" are false
Truthy(opt) == opt /= None /\ opt[1] /= <<>>

RECURSIVE Concat(_)
Concat(ss) == IF ss = <<>> THEN <<>> ELSE Head(ss) \o Concat(Tail(ss))

\* str.startswith
startswith(s, p) == Len(s) >= Len(p) /\ SubSeq(s, 1, Len(p)) = p

\* index of the first occurrence of p in s at or after i, 0 when none
RECURSIVE FindFrom(_, _, _)
FindFrom(s, p, i) ==
    IF i + Len(p) - 1 > Len(s) THEN 0
    ELSE IF SubSeq(s, i, i + Len(p) - 1) = p THEN i
    ELSE FindFrom(s, p, i + 1)

\* the `in` operator on strings
contains(s, p) == FindFrom(s, p, 1) /= 0

\* str.replace(old, ""), old non-empty: every non-overlapping occurrence,
\* scanning from the left
RECURSIVE replace_all(_, _)
replace_all(s, old) ==
    LET k == FindFrom(s, old, 1) IN
    IF k = 0 THEN s
    ELSE SubSeq(s, 1, k - 1) \o replace_all(SubSeq(s, k + Len(old), Len(s)), old)

\* str.split(sep, 1)[1], for sep in s
split_after(s, sep) ==
    LET k == FindFrom(s, sep, 1) IN SubSeq(s, k + Len(sep), Len(s))

\* str.split("/") as a list of segments
RECURSIVE split_slash(_)
split_slash(s) ==
    LET k == FindFrom(s, <<"/">>, 1) IN
    IF k = 0 THEN <<s>>
    ELSE <<SubSeq(s, 1, k - 1)>> \o split_slash(SubSeq(s, k + 1, Len(s)))

SelectSeqNot(seq, bad) ==
    LET keep(x) == x \notin bad IN SelectSeq(seq, keep)

\* pathlib: Path(p).name, the last component after dropping empty and "."
\* components ("" when there is none)
PathName(p) ==
    LET parts == SelectSeqNot(split_slash(p), {<<>>, <<".">>}) IN
    IF parts = <<>> THEN <<>> ELSE parts[Len(parts)]

UPPER == <<"A", "B", "C", "D", "E", "F", "G", "H", "I", "J", "K", "L", "M",
          "N", "O", "P", "Q", "R", "S", "T", "U", "V", "W", "X", "Y", "Z">>
LOWER == <<"a", "b", "c", "d", "e", "f", "g", "h", "i", "j", "k", "l", "m",
          "n", "o", "p", "q", "r", "s", "t", "u", "v", "w", "x", "y", "z">>

lowerChar(c) ==
    IF \E i \in 1..26 : UPPER[i] = c
    THEN LOWER[CHOOSE i \in 1..26 : UPPER[i] = c]
    ELSE c

\* str.lower
lower(s) == [i \in 1..Len(s) |-> lowerChar(s[i])]

----------------------------------------------------------------------------
(* hierarchy_query.py: ProductRecord and command inference *)

ProductRecord(g, n, s, r) ==
    [group |-> g, product_name |-> n, product_short |-> s, repo_path |-> r]

PREFIX == <<"m", "c", "p", "_", "s", "e", "r", "v", "e", "r", "_">>
CMDPREFIX == <<"m", "c", "p", "-", "s", "e", "r", "v", "e", "r", "-">>

infer_server_command(rec) ==
    IF ~Truthy(rec.repo_path) THEN None
    ELSE LET repo_name == PathName(rec.repo_path[1]) IN
         IF startswith(repo_name, PREFIX)
         THEN Some(CMDPREFIX \o replace_all(repo_name, PREFIX))
         ELSE None

----------------------------------------------------------------------------
(* hierarchy_query.py: the catalog parser.  A table is the list of its    *)
(* <tr> blocks; a row is the list of its cells and the first href of the  *)
(* row.  A cell has the form of its opening tag and its content, a list   *)
(* of characters and of markup tags.                                      *)

Cell(tag, content) == [tag |-> tag, content |-> content]
Row(cells, href) == [cells |-> cells, href |-> href]

\* opening tags that <td(?:\s+rowspan="\d+")?> matches
MatchedTags == {"td", "td_rowspan"}
\* what <.*?> removes from a cell
MarkupTokens == {"<b>", "</b>", "<a>", "</a>", "<br>"}
Whitespace == {" "}

RECURSIVE lstrip(_)
lstrip(s) == IF s /= <<>> /\ Head(s) \in Whitespace THEN lstrip(Tail(s)) ELSE s

RECURSIVE rstrip(_)
rstrip(s) ==
    IF s /= <<>> /\ s[Len(s)] \in Whitespace
    THEN rstrip(SubSeq(s, 1, Len(s) - 1)) ELSE s

\* str.strip
strip(s) == rstrip(lstrip(s))

\* re.findall of the cell pattern on a row: the contents of the matched cells
tds_of(row) ==
    LET matched(c) == c.tag \in MatchedTags
        cs == SelectSeq(row.cells, matched)
    IN [i \in 1..Len(cs) |-> cs[i].content]

\* re.sub(r"<.*?>", "", col).strip() for each cell
cleaned_of(row) ==
    LET t == tds_of(row)
    IN [i \in 1..Len(t) |-> strip(SelectSeqNot(t[i], MarkupTokens))]

MARKER == <<"m", "c", "p", "-", "s", "e", "r", "v", "e", "r", "/",
            "t", "r", "e", "e", "/",
            "m", "a", "s", "t", "e", "r", "-", "d", "e", "v", "/">>

\* the repo_path of a row, from its first href
repo_path_of(row) ==
    IF row.href = None THEN None
    ELSE IF contains(row.href[1], MARKER)
         THEN Some(split_after(row.href[1], MARKER))
         ELSE None

\* the fallback group name of line 60, spelled in ASCII
UNGROUPED == <<"u", "n", "g", "r", "o", "u", "p", "e", "d">>

\* a defect: a two-cell row does not inherit the group of the row above
row_step_noinherit(row, st) ==
    LET cleaned == cleaned_of(row)
        repo_path == repo_path_of(row)
    IN IF tds_of(row) = <<>> THEN st
       ELSE IF Len(cleaned) = 3
       THEN [current_group |-> Some(cleaned[1]),
             products |-> Append(st.products,
                 ProductRecord(IF cleaned[1] /= <<>> THEN cleaned[1] ELSE UNGROUPED,
                               cleaned[2], cleaned[3], repo_path))]
       ELSE IF Len(cleaned) = 2 /\ Truthy(st.current_group)
       THEN [current_group |-> None,
             products |-> Append(st.products,
                 ProductRecord(st.current_group[1], cleaned[1], cleaned[2], repo_path))]
       ELSE st

\* one iteration of the loop of _extract_rows over the rows
row_step(row, st) ==
    LET cleaned == cleaned_of(row)
        repo_path == repo_path_of(row)
    IN IF tds_of(row) = <<>> THEN st
       ELSE IF Len(cleaned) = 3
       THEN [current_group |-> Some(cleaned[1]),
             products |-> Append(st.products,
                 ProductRecord(IF cleaned[1] /= <<>> THEN cleaned[1] ELSE UNGROUPED,
                               cleaned[2], cleaned[3], repo_path))]
       ELSE IF Len(cleaned) = 2 /\ Truthy(st.current_group)
       THEN [current_group |-> st.current_group,
             products |-> Append(st.products,
                 ProductRecord(st.current_group[1], cleaned[1], cleaned[2], repo_path))]
       ELSE st

RECURSIVE extract_loop(_, _)
extract_loop(rows, st) ==
    IF rows = <<>> THEN st
    ELSE extract_loop(Tail(rows), row_step(Head(rows), st))

_extract_rows(table_html) ==
    extract_loop(table_html, [current_group |-> None, products |-> <<>>]).products

(* dicts are lists of [key, value] pairs in insertion order *)
DictHas(d, k) == \E i \in 1..Len(d) : d[i].key = k
DictGet(d, k, default) ==
    IF DictHas(d, k) THEN d[CHOOSE i \in 1..Len(d) : d[i].key = k].value ELSE default
DictSet(d, k, v) ==
    IF DictHas(d, k)
    THEN [i \in 1..Len(d) |-> IF d[i].key = k THEN [key |-> k, value |-> v] ELSE d[i]]
    ELSE Append(d, [key |-> k, value |-> v])
DictKeys(d) == {d[i].key : i \in 1..Len(d)}

RECURSIVE group_products(_, _)
group_products(products, h) ==
    IF products = <<>> THEN h
    ELSE LET item == Head(products) IN
         group_products(Tail(products),
             DictSet(h, item.group, Append(DictGet(h, item.group, <<>>), item)))

\* load_hierarchy on a document that has a table
load_hierarchy(table_html) == group_products(_extract_rows(table_html), <<>>)

----------------------------------------------------------------------------
(* hierarchy_query.py: the hierarchy index *)

RECURSIVE first_match(_, _)
first_match(items, product) ==
    IF items = <<>> THEN None
    ELSE IF Head(items).product_name = product
            \/ lower(Head(items).product_short) = lower(product)
         THEN Some(Head(items))
         ELSE first_match(Tail(items), product)

\* a defect: the short alias is compared case-sensitively
find_product_exact(h, group_name, product) ==
    LET items == DictGet(h, group_name, <<>>)
        hit(i) == items[i].product_name = product \/ items[i].product_short = product
    IN IF \E i \in 1..Len(items) : hit(i)
       THEN Some(items[CHOOSE i \in 1..Len(items) : hit(i) /\ \A j \in 1..(i - 1) : ~hit(j)])
       ELSE None

\* a defect: the last matching record is returned
find_product_last(h, group_name, product) ==
    LET items == DictGet(h, group_name, <<>>)
        hit(i) == \/ items[i].product_name = product
                  \/ lower(items[i].product_short) = lower(product)
    IN IF \E i \in 1..Len(items) : hit(i)
       THEN Some(items[CHOOSE i \in 1..Len(items) : hit(i) /\ \A j \in (i + 1)..Len(items) : ~hit(j)])
       ELSE None

\* find_product: <<r>> when it returns r, <<>> when it raises ValueError
find_product(h, group_name, product) ==
    first_match(DictGet(h, group_name, <<>>), product)

----------------------------------------------------------------------------
(* hierarchy_query.py: main *)

LoadOk ==
    /\ pc = "start"
    /\ README /= None
    /\ hierarchy' = load_hierarchy(README[1])
    /\ calls' = Append(calls, "load_hierarchy")
    /\ pc' = "loaded"
    /\ UNCHANGED <<README, args, record, outcome, fs, fs0, writes, invocations>>
    /\ UNCHANGED collVars

\* no <table ... </table> in the document: RuntimeError
LoadNoTable ==
    /\ pc = "start"
    /\ README = None
    /\ calls' = Append(calls, "load_hierarchy")
    /\ outcome' = "RuntimeError_no_table"
    /\ pc' = "done"
    /\ UNCHANGED <<README, args, hierarchy, record, fs, fs0, writes, invocations>>
    /\ UNCHANGED collVars

ListGroups ==
    /\ pc = "loaded"
    /\ args.list_groups
    /\ calls' = Append(calls, "list_groups")
    /\ outcome' = "ok"
    /\ pc' = "done"
    /\ UNCHANGED <<README, args, hierarchy, record, fs, fs0, writes, invocations>>
    /\ UNCHANGED collVars

\* a defect: the group is listed even when --list-groups is given
ListProducts_flagless ==
    /\ pc = "loaded"
    /\ Truthy(args.group) /\ ~Truthy(args.product)
    /\ calls' = Append(calls, "list_products")
    /\ outcome' = IF DictGet(hierarchy, args.group[1], <<>>) = <<>>
                  THEN "ValueError_group" ELSE "ok"
    /\ pc' = "done"
    /\ UNCHANGED <<README, args, hierarchy, record, fs, fs0, writes, invocations>>
    /\ UNCHANGED collVars

ListProducts ==
    /\ pc = "loaded"
    /\ ~args.list_groups
    /\ Truthy(args.group) /\ ~Truthy(args.product)
    /\ calls' = Append(calls, "list_products")
    /\ outcome' = IF DictGet(hierarchy, args.group[1], <<>>) = <<>>
                  THEN "ValueError_group" ELSE "ok"
    /\ pc' = "done"
    /\ UNCHANGED <<README, args, hierarchy, record, fs, fs0, writes, invocations>>
    /\ UNCHANGED collVars

FindProduct ==
    /\ pc = "loaded"
    /\ ~args.list_groups
    /\ Truthy(args.group) /\ Truthy(args.product)
    /\ calls' = Append(calls, "find_product")
    /\ LET r == find_product(hierarchy, args.group[1], args.product[1]) IN
       IF r = None
       THEN /\ outcome' = "ValueError_product"
            /\ pc' = "done"
            /\ UNCHANGED record
       ELSE /\ record' = r
            /\ pc' = "resolved"
            /\ UNCHANGED outcome
    /\ UNCHANGED <<README, args, hierarchy, fs, fs0, writes, invocations>>
    /\ UNCHANGED collVars

\* parser.error: neither --list-groups nor --group
UsageError ==
    /\ pc = "loaded"
    /\ ~args.list_groups
    /\ ~Truthy(args.group)
    /\ outcome' = "usage_error"
    /\ pc' = "done"
    /\ UNCHANGED <<README, args, hierarchy, record, calls, fs, fs0, writes, invocations>>
    /\ UNCHANGED collVars

\* the record is printed and --collect-api was not given
ReportOnly ==
    /\ pc = "resolved"
    /\ ~args.collect_api
    /\ outcome' = "ok"
    /\ pc' = "done"
    /\ UNCHANGED <<README, args, hierarchy, record, calls, fs, fs0, writes, invocations>>
    /\ UNCHANGED collVars

\* a defect: the command is not checked before the collector is started
collect_api_unchecked ==
    /\ pc = "resolved"
    /\ args.collect_api
    /\ calls' = Append(calls, "collect_api")
    /\ invocations' = invocations + 1
    /\ cpc' = "spawned"
    /\ pc' = "waiting"
    /\ UNCHANGED <<README, args, hierarchy, record, outcome, fs, fs0, writes>>
    /\ UNCHANGED <<transport, session, tools, schemas, idx, pending, failure,
                   result, exitcode>>

\* collect_api up to subprocess.run
collect_api ==
    /\ pc = "resolved"
    /\ args.collect_api
    /\ calls' = Append(calls, "collect_api")
    /\ IF infer_server_command(record[1]) = None
       THEN /\ outcome' = "RuntimeError_no_command"
            /\ pc' = "done"
            /\ UNCHANGED <<invocations, cpc>>
       ELSE /\ invocations' = invocations + 1
            /\ cpc' = "spawned"
            /\ pc' = "waiting"
            /\ UNCHANGED outcome
    /\ UNCHANGED <<README, args, hierarchy, record, fs, fs0, writes>>
    /\ UNCHANGED <<transport, session, tools, schemas, idx, pending, failure,
                   result, exitcode>>

\* subprocess.run(..., check=True) returns or raises CalledProcessError
SubprocessDone ==
    /\ pc = "waiting"
    /\ cpc = "exited"
    /\ outcome' = IF exitcode = Some(0) THEN "ok" ELSE "CalledProcessError"
    /\ pc' = "done"
    /\ UNCHANGED <<README, args, hierarchy, record, calls, fs, fs0, writes, invocations>>
    /\ UNCHANGED collVars

----------------------------------------------------------------------------
(* mcp_collect.py.  A tool is [name, description, inputSchema, parameters]; *)
(* inputSchema is "None", "{}" (an empty, false schema) or "obj";           *)
(* parameters is <<>> when the tool object has no such attribute.           *)

Tool(n, d, i, p) == [name |-> n, description |-> d, inputSchema |-> i, parameters |-> p]

\* the entry stored for a tool; parameters is <<>> when the key is not written
schema_entry(tool) ==
    IF tool.inputSchema \notin {"None", "{}"}
    THEN [description |-> tool.description,
          inputSchema |-> tool.inputSchema,
          parameters |-> IF tool.parameters = <<>> THEN <<"{}">> ELSE tool.parameters]
    ELSE [description |-> tool.description,
          inputSchema |-> "None",
          parameters |-> <<>>]

\* the dict the loop builds from a list of tools
RECURSIVE schemas_of(_, _)
schemas_of(ts, d) ==
    IF ts = <<>> THEN d
    ELSE schemas_of(Tail(ts), DictSet(d, Head(ts).name, schema_entry(Head(ts))))

collectorFrame == <<pc, README, args, hierarchy, record, outcome, calls, fs0, invocations>>

\* the interpreter starts the script: the imports of lines 7-12 succeed and
\* main calls get_server_schemas
ScriptStart ==
    /\ cpc = "spawned"
    /\ schemas' = <<>>
    /\ cpc' = "connecting"
    /\ UNCHANGED <<transport, session, tools, idx, pending, failure, result, exitcode>>
    /\ UNCHANGED <<fs, writes>>
    /\ UNCHANGED collectorFrame

\* the script dies before main (the mcp package cannot be imported)
ScriptImportError ==
    /\ cpc = "spawned"
    /\ exitcode' = Some(1)
    /\ cpc' = "exited"
    /\ UNCHANGED <<transport, session, tools, schemas, idx, pending, failure, result>>
    /\ UNCHANGED <<fs, writes>>
    /\ UNCHANGED collectorFrame

\* async with stdio_client(server_params): the server command is started
OpenTransport ==
    /\ cpc = "connecting"
    /\ \/ /\ transport' = "open"
          /\ cpc' = "transport"
          /\ UNCHANGED failure
       \/ /\ failure' = "spawn"
          /\ cpc' = "except"
          /\ UNCHANGED transport
    /\ UNCHANGED <<session, tools, schemas, idx, pending, result, exitcode>>
    /\ UNCHANGED <<fs, writes>>
    /\ UNCHANGED collectorFrame

\* async with ClientSession(read_stream, write_stream)
OpenSession ==
    /\ cpc = "transport"
    /\ \/ /\ session' = "open"
          /\ cpc' = "session"
          /\ UNCHANGED <<failure, pending>>
       \/ /\ failure' = "session"
          /\ pending' = "exception"
          /\ cpc' = "exit_transport"
          /\ UNCHANGED session
    /\ UNCHANGED <<transport, tools, schemas, idx, result, exitcode>>
    /\ UNCHANGED <<fs, writes>>
    /\ UNCHANGED collectorFrame

\* await session.initialize()
Initialize ==
    /\ cpc = "session"
    /\ \/ /\ cpc' = "initialized"
          /\ UNCHANGED <<failure, pending>>
       \/ /\ failure' = "handshake"
          /\ pending' = "exception"
          /\ cpc' = "exit_session"
    /\ UNCHANGED <<transport, session, tools, schemas, idx, result, exitcode>>
    /\ UNCHANGED <<fs, writes>>
    /\ UNCHANGED collectorFrame

ToolT1 == Tool(<<"t", "1">>, "d1", "obj", <<>>)
ToolT2 == Tool(<<"t", "2">>, "d2", "None", <<>>)
\* a second tool of the name t1, with an empty schema and a parameters attribute
ToolT1b == Tool(<<"t", "1">>, "d3", "{}", <<"p">>)
ToolT3 == Tool(<<"t", "3">>, "d4", "obj", <<"p">>)
ToolSet == {ToolT1, ToolT2, ToolT1b, ToolT3}

RECURSIVE SeqsUpTo(_, _)
SeqsUpTo(S, n) ==
    IF n = 0 THEN {<<>>}
    ELSE LET shorter == SeqsUpTo(S, n - 1)
         IN shorter \cup {Append(q, x) : q \in shorter, x \in S}

ToolLists == SeqsUpTo(ToolSet, MaxTools)

\* tools_response = await session.list_tools()
ListTools ==
    /\ cpc = "initialized"
    /\ \/ \E ts \in ToolLists :
             /\ tools' = ts
             /\ idx' = 1
             /\ cpc' = "loop"
             /\ UNCHANGED <<failure, pending>>
       \/ /\ failure' = "list_tools"
          /\ pending' = "exception"
          /\ cpc' = "exit_session"
          /\ UNCHANGED <<tools, idx>>
    /\ UNCHANGED <<transport, session, schemas, result, exitcode>>
    /\ UNCHANGED <<fs, writes>>
    /\ UNCHANGED collectorFrame

\* one iteration of the for loop: the tool is printed and stored, or one of
\* the statements of the body raises
ProcessTool ==
    /\ cpc = "loop"
    /\ idx <= Len(tools)
    /\ \/ /\ schemas' = DictSet(schemas, tools[idx].name, schema_entry(tools[idx]))
          /\ idx' = idx + 1
          /\ UNCHANGED <<failure, pending, cpc>>
       \/ /\ failure' = "tool"
          /\ pending' = "exception"
          /\ cpc' = "exit_session"
          /\ UNCHANGED <<schemas, idx>>
    /\ UNCHANGED <<transport, session, tools, result, exitcode>>
    /\ UNCHANGED <<fs, writes>>
    /\ UNCHANGED collectorFrame

\* return schemas, inside the two async with blocks
ReturnSchemas ==
    /\ cpc = "loop"
    /\ idx > Len(tools)
    /\ pending' = "return"
    /\ cpc' = "exit_session"
    /\ UNCHANGED <<transport, session, tools, schemas, idx, failure, result, exitcode>>
    /\ UNCHANGED <<fs, writes>>
    /\ UNCHANGED collectorFrame

\* ClientSession.__aexit__
ExitSession ==
    /\ cpc = "exit_session"
    /\ session' = "closed"
    /\ cpc' = "exit_transport"
    /\ UNCHANGED <<transport, tools, schemas, idx, pending, failure, result, exitcode>>
    /\ UNCHANGED <<fs, writes>>
    /\ UNCHANGED collectorFrame

\* a defect: the transport is released only when the block is left normally
ExitTransport_leak ==
    /\ cpc = "exit_transport"
    /\ transport' = IF pending = "return" THEN "closed" ELSE transport
    /\ IF pending = "return"
       THEN /\ result' = Some(schemas)
            /\ cpc' = "returned"
       ELSE /\ cpc' = "except"
            /\ UNCHANGED result
    /\ UNCHANGED <<session, tools, schemas, idx, pending, failure, exitcode>>
    /\ UNCHANGED <<fs, writes>>
    /\ UNCHANGED collectorFrame

\* stdio_client.__aexit__, after which the return value or the exception
\* leaves the try block
ExitTransport ==
    /\ cpc = "exit_transport"
    /\ transport' = "closed"
    /\ IF pending = "return"
       THEN /\ result' = Some(schemas)
            /\ cpc' = "returned"
       ELSE /\ cpc' = "except"
            /\ UNCHANGED result
    /\ UNCHANGED <<session, tools, schemas, idx, pending, failure, exitcode>>
    /\ UNCHANGED <<fs, writes>>
    /\ UNCHANGED collectorFrame

\* a defect: the handler returns what was collected so far
ExceptHandler_partial ==
    /\ cpc = "except"
    /\ result' = Some(schemas)
    /\ cpc' = "returned"
    /\ UNCHANGED <<transport, session, tools, schemas, idx, pending, failure, exitcode>>
    /\ UNCHANGED <<fs, writes>>
    /\ UNCHANGED collectorFrame

\* except Exception: the error is printed and {} is returned
ExceptHandler ==
    /\ cpc = "except"
    /\ result' = Some(<<>>)
    /\ cpc' = "returned"
    /\ UNCHANGED <<transport, session, tools, schemas, idx, pending, failure, exitcode>>
    /\ UNCHANGED <<fs, writes>>
    /\ UNCHANGED collectorFrame

\* a defect: the file is opened in a mode that keeps the entries it holds
save_schemas_to_file_merge(new) ==
    LET old == IF fs = None THEN <<>> ELSE fs[1]
        RECURSIVE put(_, _)
        put(d, es) == IF es = <<>> THEN d
                      ELSE put(DictSet(d, Head(es).key, Head(es).value), Tail(es))
    IN Some(put(old, new))

\* save_schemas_to_file: open(filename, 'w') and json.dump; the new content
\* of the file
save_schemas_to_file(new) == Some(new)

\* main of mcp_collect.py after get_server_schemas returned
SaveOrSkip ==
    /\ cpc = "returned"
    /\ IF result[1] /= <<>>
       THEN /\ fs' = save_schemas_to_file(result[1])
            /\ writes' = writes + 1
       ELSE UNCHANGED <<fs, writes>>
    /\ exitcode' = Some(0)
    /\ cpc' = "exited"
    /\ UNCHANGED <<transport, session, tools, schemas, idx, pending, failure, result>>
    /\ UNCHANGED collectorFrame

----------------------------------------------------------------------------
(* Inputs *)

HrefBase == <<"h", ":", "/", "/", "g", "/">>
HrefTo(path) == Some(HrefBase \o MARKER \o path)
HrefElsewhere == Some(HrefBase \o <<"d", "o", "c", "s", "/", "x">>)

Args(lg, g, p, c, j) ==
    [list_groups |-> lg, group |-> g, product |-> p, collect_api |-> c, json |-> j]

NameCo == <<"C", "o">>
NameG == <<"G">>
ServicesDir == <<"s", "v", "c", "/">>

\* rows of the shapes the README has and of the shapes the parser skips
RowGroupCo ==
    Row(<<Cell("td_rowspan", <<" ", "<b>", "C", "o", "</b>", " ">>),
          Cell("td", <<"<a>", "E", "c", "s", "</a>">>),
          Cell("td", <<"E", "C", "S">>)>>,
        HrefTo(ServicesDir \o PREFIX \o <<"e", "c", "s">>))
RowGroupDb ==
    Row(<<Cell("td", <<"D", "b">>), Cell("td", <<"R", "d", "s">>),
          Cell("td", <<"r", "d", "s">>)>>, None)
RowGroupBlank ==
    Row(<<Cell("td_rowspan", <<"<b>", "</b>", " ">>), Cell("td", <<"I", "a", "m">>),
          Cell("td", <<"i", "a", "m">>)>>, None)
RowObs ==
    Row(<<Cell("td", <<"<a>", "O", "b", "s", "</a>">>), Cell("td", <<" ", "O", "B", "S">>)>>,
        HrefTo(ServicesDir \o PREFIX \o <<"o", "b", "s">>))
RowVpc ==
    Row(<<Cell("td", <<"V", "p", "c">>), Cell("td", <<"v", "p", "c">>)>>, HrefElsewhere)
RowOne == Row(<<Cell("td", <<"x">>)>>, None)
RowHeader ==
    Row(<<Cell("th", <<"G">>), Cell("th", <<"N">>), Cell("th", <<"S">>)>>, None)
RowAttr ==
    Row(<<Cell("td_attr", <<"Q">>), Cell("td", <<"K", "m", "s">>),
          Cell("td", <<"k", "m", "s">>)>>, None)
RowFour ==
    Row(<<Cell("td", <<"a">>), Cell("td", <<"b">>), Cell("td", <<"c">>),
          Cell("td", <<"d">>)>>, None)

RowSet == {RowGroupCo, RowGroupDb, RowGroupBlank, RowObs, RowVpc, RowOne,
           RowHeader, RowAttr, RowFour}

ParseTables == SeqsUpTo(RowSet, MaxRows)

\* a catalog of one group with a command, a second command and no command
MainTable == <<RowGroupCo, RowObs, RowVpc>>
MainDocs == {None, Some(<<>>), Some(MainTable)}
MainGroups == {None, Some(<<>>), Some(NameCo), Some(<<"X">>)}
MainProducts == {None, Some(<<>>), Some(<<"O", "b", "s">>), Some(<<"e", "c", "s">>),
                 Some(<<"v", "p", "c">>), Some(<<"z">>)}

OldEntry == [description |-> "old", inputSchema |-> "obj", parameters |-> <<>>]
\* what the output path holds before the run
FileContents ==
    {None,
     Some(<<[key |-> CMDPREFIX \o <<"e", "c", "s">>, value |-> OldEntry]>>),
     Some(<<[key |-> <<"t", "1">>, value |-> OldEntry],
            [key |-> <<"t", "0">>, value |-> OldEntry]>>)}

\* names, aliases and queries that differ in letter case only
FindNames == {<<"E", "c">>, <<"e", "c">>, <<"O", "b">>}
FindShorts == {<<"E", "C">>, <<"e", "c">>, <<"o", "b">>}
FindQueries == {<<"E", "c">>, <<"e", "c">>, <<"E", "C">>, <<"e", "C">>,
                <<"O", "b">>, <<"O", "B">>, <<"z">>}
FindItems == {<<n, a>> : n \in FindNames, a \in FindShorts}

FindTableOf(items) ==
    [i \in 1..Len(items) |->
        IF i = 1
        THEN Row(<<Cell("td_rowspan", NameG), Cell("td", items[i][1]),
                   Cell("td", items[i][2])>>, None)
        ELSE Row(<<Cell("td", items[i][1]), Cell("td", items[i][2])>>, None)]

FindTables == {FindTableOf(items) : items \in SeqsUpTo(FindItems, MaxItems) \ {<<>>}}

\* repository paths built from the prefix and from what may surround it
Fragments == {PREFIX, <<"m", "c", "p">>, <<"x">>, <<"/">>, <<".">>, <<"_">>}
InferPaths == {Concat(fs_) : fs_ \in SeqsUpTo(Fragments, MaxFragments)}
InferHrefs == {None, HrefElsewhere} \cup {HrefTo(path) : path \in InferPaths}
InferTableOf(href) ==
    <<Row(<<Cell("td", NameG), Cell("td", <<"P">>), Cell("td", <<"p">>)>>, href)>>

InitRest ==
    /\ pc = "start"
    /\ hierarchy = <<>>
    /\ record = None
    /\ outcome = "running"
    /\ calls = <<>>
    /\ fs = fs0
    /\ cpc = "idle"
    /\ transport = "closed"
    /\ session = "closed"
    /\ tools = <<>>
    /\ schemas = <<>>
    /\ idx = 0
    /\ pending = "none"
    /\ failure = "none"
    /\ result = None
    /\ writes = 0
    /\ invocations = 0
    /\ exitcode = None

\* every combination of command-line inputs on a small catalog
InitMain ==
    /\ README \in MainDocs
    /\ \E lg \in BOOLEAN, g \in MainGroups, p \in MainProducts,
          c \in BOOLEAN, j \in BOOLEAN : args = Args(lg, g, p, c, j)
    /\ fs0 \in FileContents

\* tables of every row shape
InitParse ==
    /\ \E t \in ParseTables : README = Some(t)
    /\ args = Args(TRUE, None, None, FALSE, FALSE)
    /\ fs0 = None

\* groups whose names and aliases collide up to letter case
InitFind ==
    /\ \E t \in FindTables : README = Some(t)
    /\ \E q \in FindQueries : args = Args(FALSE, Some(NameG), Some(q), FALSE, FALSE)
    /\ fs0 = None

\* one product per repository path
InitInfer ==
    /\ \E h \in InferHrefs : README = Some(InferTableOf(h))
    /\ \E c \in BOOLEAN : args = Args(FALSE, Some(NameG), Some(<<"p">>), c, FALSE)
    /\ fs0 = None

Init == (InitMain \/ InitParse \/ InitFind \/ InitInfer) /\ InitRest

Next ==
    \/ LoadOk
    \/ LoadNoTable
    \/ ListGroups
    \/ ListProducts
    \/ FindProduct
    \/ UsageError
    \/ ReportOnly
    \/ collect_api
    \/ SubprocessDone
    \/ ScriptStart
    \/ ScriptImportError
    \/ OpenTransport
    \/ OpenSession
    \/ Initialize
    \/ ListTools
    \/ ProcessTool
    \/ ReturnSchemas
    \/ ExitSession
    \/ ExitTransport
    \/ ExceptHandler
    \/ SaveOrSkip

Spec == Init /\ [][Next]_vars

TypeOK ==
    /\ pc \in {"start", "loaded", "resolved", "waiting", "done"}
    /\ cpc \in {"idle", "spawned", "connecting", "transport", "session", "initialized",
                "loop", "exit_session", "exit_transport", "except", "returned", "exited"}
    /\ transport \in {"closed", "open"}
    /\ session \in {"closed", "open"}
    /\ Len(record) <= 1

----------------------------------------------------------------------------
(* Properties *)

Called(op) == \E i \in 1..Len(calls) : calls[i] = op
Prior == IF fs0 = None THEN <<>> ELSE fs0[1]
CollectSucceeded == pc = "done" /\ outcome = "ok" /\ Called("collect_api")

CollectionFailed == failure \in {"spawn", "session", "handshake", "list_tools", "tool"}

\* C2: whenever the collection step fails, the run of the orchestrator ends
\* in a failure and never normally, after exactly one collection attempt.
C2_FailureSurfaces ==
    (pc = "done" /\ CollectionFailed) =>
        /\ outcome = "CalledProcessError"
        /\ invocations = 1

NoCommandCase(rec) ==
    \/ rec.repo_path = None
    \/ ~startswith(PathName(rec.repo_path[1]), PREFIX)

\* C3: for a resolved product whose repoPath is absent or whose final segment
\* lacks the prefix mcp_server_, resolve-and-collect ends with the
\* no-launch-command error, the collector is never started and the output
\* path is never written.
C3_NoCommandNoWrite ==
    (record /= None /\ args.collect_api /\ NoCommandCase(record[1])) =>
        /\ invocations = 0
        /\ cpc = "idle"
        /\ writes = 0
        /\ fs = fs0
        /\ pc = "done" => outcome = "RuntimeError_no_command"

C3_Witness ==
    /\ pc = "done"
    /\ outcome = "RuntimeError_no_command"
    /\ record[1].repo_path /= None
    /\ fs = fs0

\* a table of one three-cell row followed by two-cell rows only
RowSpanShape(t) ==
    /\ Len(t) >= 1
    /\ Len(tds_of(t[1])) = 3
    /\ \A i \in 2..Len(t) : Len(tds_of(t[i])) = 2

\* one group, named by the first cell of the first row, holding one record per
\* row in source order, each made of the last two cells of its row
OneGroupOf(t, h) ==
    /\ Len(h) = 1
    /\ h[1].key = cleaned_of(t[1])[1]
    /\ Len(h[1].value) = Len(t)
    /\ \A i \in 1..Len(t) :
          LET cells == cleaned_of(t[i]) IN
          /\ i <= Len(h[1].value)
          /\ h[1].value[i].group = h[1].key
          /\ h[1].value[i].product_name = cells[Len(cells) - 1]
          /\ h[1].value[i].product_short = cells[Len(cells)]

\* C4 as stated: every table of one three-cell row followed by n two-cell
\* rows parses to one group named by the first cell with n+1 records.
C4_RowSpanAnyGroup ==
    (pc /= "start" /\ README /= None /\ RowSpanShape(README[1])) =>
        OneGroupOf(README[1], hierarchy)

\* C4 amended: every table of one three-cell row whose first cell is not
\* empty once markup and surrounding whitespace are removed, followed by n two-cell
\* rows, parses to exactly one group, named by that first cell, with n+1
\* records in source order; each record carries that group and the last two
\* cells of its row as productName and productShort.
C4_RowSpanInheritance ==
    (/\ pc /= "start"
     /\ README /= None
     /\ RowSpanShape(README[1])
     /\ cleaned_of(README[1][1])[1] /= <<>>) =>
        OneGroupOf(README[1], hierarchy)

C4_Witness ==
    /\ pc = "done"
    /\ README /= None
    /\ RowSpanShape(README[1])
    /\ Len(README[1]) = 3
    /\ cleaned_of(README[1][1])[1] /= <<>>
    /\ Len(hierarchy) = 1
    /\ Len(hierarchy[1].value) = 3

\* the group and the query of a run that has called find_product
Items == DictGet(hierarchy, args.group[1], <<>>)
Query == args.product[1]
Found == Called("find_product")
NameHit(i) == Items[i].product_name = Query
ShortHit(i) == lower(Items[i].product_short) = lower(Query)

\* C5 as stated: when some record of the group has productName equal to the
\* query, find_product returns the first such record, even after a record
\* whose productShort matches case-insensitively; only when no productName
\* matches does it return the first record whose productShort matches.
C5_NameFirst ==
    Found =>
        IF \E i \in 1..Len(Items) : NameHit(i)
        THEN /\ record /= None
             /\ \E i \in 1..Len(Items) :
                   /\ NameHit(i) /\ \A j \in 1..(i - 1) : ~NameHit(j)
                   /\ record[1] = Items[i]
        ELSE IF \E i \in 1..Len(Items) : ShortHit(i)
        THEN /\ record /= None
             /\ \E i \in 1..Len(Items) :
                   /\ ShortHit(i) /\ \A j \in 1..(i - 1) : ~ShortHit(j)
                   /\ record[1] = Items[i]
        ELSE record = None /\ outcome = "ValueError_product"

\* C5 amended: find_product returns the first record in insertion order whose
\* productName equals the query exactly or whose productShort equals it
\* case-insensitively, so a record matched by its alias is returned even when
\* a later record matches by its full name; it fails with the
\* unknown-product error when no record matches either way.
C5_FirstEitherMatch ==
    Found =>
        IF \E i \in 1..Len(Items) : NameHit(i) \/ ShortHit(i)
        THEN /\ record /= None
             /\ \E i \in 1..Len(Items) :
                   /\ NameHit(i) \/ ShortHit(i)
                   /\ \A j \in 1..(i - 1) : ~(NameHit(j) \/ ShortHit(j))
                   /\ record[1] = Items[i]
        ELSE record = None /\ outcome = "ValueError_product"

C5_Witness ==
    /\ Found
    /\ record /= None
    /\ Len(Items) >= 2
    /\ record[1] = Items[1]
    /\ ~NameHit(1) /\ ShortHit(1)
    /\ NameHit(2)

CaseVariantOfName(i) ==
    lower(Items[i].product_name) = lower(Query) /\ Items[i].product_name /= Query

\* C6 as stated: find_product succeeds for every query equal to a record's
\* productShort up to letter case, and fails with the unknown-product error
\* for every query that equals a record's productName up to letter case but
\* differs from it in the case of a letter.
C6_CaseLaw ==
    Found =>
        /\ (\E i \in 1..Len(Items) : ShortHit(i)) => record /= None
        /\ (\E i \in 1..Len(Items) : CaseVariantOfName(i)) =>
               (record = None /\ outcome = "ValueError_product")

\* C6 amended: find_product succeeds for every query equal to a record's
\* productShort up to letter case; for a query that equals a record's
\* productName up to letter case but differs from it in the case of a letter
\* it fails with the unknown-product error unless the query is the exact
\* productName or, up to letter case, the productShort of a record of the group.
C6_CaseLawUnlessOtherMatch ==
    Found =>
        /\ (\E i \in 1..Len(Items) : ShortHit(i)) => record /= None
        /\ (/\ \E i \in 1..Len(Items) : CaseVariantOfName(i)
            /\ \A i \in 1..Len(Items) : ~NameHit(i) /\ ~ShortHit(i)) =>
               (record = None /\ outcome = "ValueError_product")

C6_Witness ==
    /\ Found
    /\ pc = "done"
    /\ outcome = "ValueError_product"
    /\ \E i \in 1..Len(Items) : CaseVariantOfName(i)

\* C7: infer returns a command exactly when repoPath is present and its final
\* segment begins with mcp_server_, and the command is mcp-server- followed by
\* the segment without its leading prefix, later occurrences of the prefix
\* kept.
C7_InferRule ==
    record /= None =>
        LET rec == record[1]
            segment == IF rec.repo_path = None THEN <<>> ELSE PathName(rec.repo_path[1])
        IN IF rec.repo_path /= None /\ startswith(segment, PREFIX)
           THEN infer_server_command(rec) =
                    Some(CMDPREFIX \o SubSeq(segment, Len(PREFIX) + 1, Len(segment)))
           ELSE infer_server_command(rec) = None

FourOperations ==
    {<<"list_groups">>, <<"list_products">>, <<"find_product">>,
     <<"find_product", "collect_api">>}

\* the operations main has called after load_hierarchy
Operations == IF calls = <<>> THEN <<>> ELSE Tail(calls)

CollectorOnceAfterResolve ==
    /\ invocations <= 1
    /\ cpc /= "idle" => (invocations = 1 /\ record /= None /\ Called("find_product"))
    /\ calls /= <<>> => calls[1] = "load_hierarchy"

\* C8 as stated: for every combination of inputs the run loads the document
\* and, the document having a table, executes exactly one of the four
\* operations and ends; a run given the
\* collect flag reaches the collection step; the collector is started at
\* most once and only after the product was resolved.
C8_ExactlyOneOperation ==
    /\ CollectorOnceAfterResolve
    /\ (pc = "done" /\ outcome /= "RuntimeError_no_table") =>
          /\ Operations \in FourOperations
          /\ args.collect_api => Called("collect_api")

\* C8 amended: the run first loads the document and builds the hierarchy, then
\* executes at most one of the four operations and ends: ListGroups when the
\* list-groups flag is given, otherwise ListProducts when a group and no
\* product is given, otherwise ResolveProduct when a group and a product are
\* given, and no operation (a usage error) when neither the flag nor a group
\* is given or when the document has no table; the collection step is reached
\* only in a ResolveProduct run that is given the collect flag and whose
\* product was resolved; the collector is started at most once per run and
\* only after the product was resolved; nothing runs after the end.
C8_AtMostOneOperation ==
    /\ CollectorOnceAfterResolve
    /\ pc = "done" =>
          /\ calls /= <<>>
          /\ Operations \in FourOperations \cup {<<>>}
          /\ Operations =
                IF outcome = "RuntimeError_no_table" THEN <<>>
                ELSE IF args.list_groups THEN <<"list_groups">>
                ELSE IF Truthy(args.group) /\ ~Truthy(args.product) THEN <<"list_products">>
                ELSE IF Truthy(args.group) /\ Truthy(args.product)
                     THEN IF args.collect_api /\ record /= None
                          THEN <<"find_product", "collect_api">>
                          ELSE <<"find_product">>
                ELSE <<>>
          /\ (Operations = <<>>) = (outcome \in {"RuntimeError_no_table", "usage_error"})
          /\ ~ENABLED Next

C8_Witness ==
    /\ pc = "done"
    /\ args.collect_api
    /\ args.list_groups
    /\ Truthy(args.group) /\ Truthy(args.product)
    /\ Operations = <<"list_groups">>
    /\ invocations = 0

\* C9: on every exit path of a collection call the session and the transport
\* that were acquired are released before the call returns: once the call has
\* left the async with blocks neither is open, and the session is never open
\* without the transport.
C9_ScopedRelease ==
    /\ session = "open" => transport = "open"
    /\ cpc \in {"except", "returned", "exited"} =>
          (session = "closed" /\ transport = "closed")
    /\ pc = "done" => (session = "closed" /\ transport = "closed")

C9_Witness ==
    /\ cpc = "returned"
    /\ failure = "tool"
    /\ idx >= 2
    /\ session = "closed"
    /\ transport = "closed"

\* C10: the collector script writes the output file exactly when the
\* collected mapping is not empty.  When the collection fails or the server
\* lists no tool the file is as it was and the script still exits with 0; when
\* tools were collected the file is written once, after the collection has
\* completed, with the mapping of all the tools listed.
C10_WriteIffNonEmpty ==
    /\ writes <= 1
    /\ writes = 0 => fs = fs0
    /\ writes = 1 =>
          /\ cpc = "exited"
          /\ failure = "none"
          /\ idx > Len(tools)
          /\ fs = Some(schemas_of(tools, <<>>))
    /\ (cpc = "exited" /\ result /= None) =>
          /\ exitcode = Some(0)
          /\ (writes = 1) = (result[1] /= <<>>)
          /\ (result[1] /= <<>>) = (failure = "none" /\ tools /= <<>>)

C10_Witness ==
    /\ cpc = "exited"
    /\ failure = "tool"
    /\ schemas /= <<>>
    /\ exitcode = Some(0)
    /\ fs0 /= None
    /\ fs = fs0

====
